---- MODULE Spec2Model ----
(***************************************************************************)
(* Model of the trade-metrics pipeline of tariffs-march-2024:              *)
(*   nafta-exports.py, nafta-imports.py  (the two harmonizer scripts)      *)
(*   combined.py                         (calculate_trade_metrics)         *)
(*                                                                         *)
(* A string is a sequence of one-character strings, so that the regular    *)
(* expressions and str.replace of the scripts are computed character by    *)
(* character.  A cell of a data frame is a record: Str(s) for a string,    *)
(* a float (see below), NaN for pandas' missing value.  pandas has one     *)
(* missing value, NaN, for "absent" and for "undefined" (0/0) alike.       *)
(*                                                                         *)
(* A float is binary floating point with a MantBits-bit significand,       *)
(* round-to-nearest-even, with +-inf and NaN: IEEE-754 binary64 scaled     *)
(* down from its 53 bits so that TLC's integers can carry it.  The         *)
(* exponent is unbounded (no value of the model overflows) and the sign    *)
(* of zero is not kept (no negative zero arises from the inputs used).     *)
(***************************************************************************)
EXTENDS Integers, Sequences, FiniteSets, TLC

(***************************************************************************)
(* Bounds of the model.                                                    *)
(***************************************************************************)
\* rows of a raw input file: 1..MaxRows
MaxRows == 2
\* bits of a float's significand (53 in binary64)
MantBits == 7

(***************************************************************************)
(* Characters and strings.                                                 *)
(***************************************************************************)
Digits == {"0", "1", "2", "3", "4", "5", "6", "7", "8", "9"}

Letters ==
  {"a", "b", "c", "d", "e", "f", "g", "h", "i", "j", "k", "l", "m",
   "n", "o", "p", "q", "r", "s", "t", "u", "v", "w", "x", "y", "z",
   "A", "B", "C", "D", "E", "F", "G", "H", "I", "J", "K", "L", "M",
   "N", "O", "P", "Q", "R", "S", "T", "U", "V", "W", "X", "Y", "Z"}

\* \d of the regular expressions
IsDigit(c) == c \in Digits

\* \w of the regular expressions
IsWord(c) == c \in Digits \cup Letters \cup {"_"}

\* \s of the regular expressions
IsSpace(c) == c = " "

Max(S) == CHOOSE x \in S : \A y \in S : y <= x

Min(S) == CHOOSE x \in S : \A y \in S : x <= y

\* s[i..j], empty when j < i
Slice(s, i, j) == [k \in 1..(j - i + 1) |-> s[i + k - 1]]

\* the last index of the longest run s[i..j] of characters in class P,
\* i-1 when s[i] is not in P: what a greedy P+ consumes from i
RunEnd(s, i, P(_)) ==
  LET ends == {j \in i..Len(s) : \A k \in i..j : P(s[k])}
  IN  IF ends = {} THEN i - 1 ELSE Max(ends)

(***************************************************************************)
(* Cells.                                                                  *)
(***************************************************************************)
Str(s) == [k |-> "str", s |-> s]

NaN == [k |-> "nan"]

Inf(sign) == [k |-> "inf", sg |-> sign]

IsNaN(v) == v.k = "nan"

IsStr(v) == v.k = "str"

(***************************************************************************)
(* Floats: m * 2^e with m odd and |m| < 2^MantBits, or zero (m = 0, e = 0).*)
(***************************************************************************)
RECURSIVE Pow2(_)
Pow2(n) == IF n <= 0 THEN 1 ELSE 2 * Pow2(n - 1)

RECURSIVE Pow10(_)
Pow10(n) == IF n <= 0 THEN 1 ELSE 10 * Pow10(n - 1)

Abs(x) == IF x < 0 THEN -x ELSE x

Sign(x) == IF x < 0 THEN -1 ELSE 1

Zero == [k |-> "num", m |-> 0, e |-> 0]

\* the canonical form of m * 2^e: trailing zero bits moved to the exponent
RECURSIVE Normal(_, _)
Normal(m, e) ==
  IF m = 0 THEN Zero
  ELSE IF m % 2 = 0 THEN Normal(m \div 2, e + 1)
  ELSE [k |-> "num", m |-> m, e |-> e]

\* the floor of log2(n/d), for n, d > 0
RECURSIVE Log2Up(_, _, _)
Log2Up(n, d, l) == IF 2 * d <= n THEN Log2Up(n, 2 * d, l + 1) ELSE l

RECURSIVE Log2Down(_, _, _)
Log2Down(n, d, l) == IF n < d THEN Log2Down(2 * n, d, l - 1) ELSE l

FloorLog2(n, d) == IF n >= d THEN Log2Up(n, d, 0) ELSE Log2Down(n, d, 0)

\* the float nearest to sign * n / d (n >= 0, d > 0), ties to the even
\* significand: the rounding of every binary64 operation and of float(str)
RoundRat(sign, n, d) ==
  IF n = 0 THEN Zero
  ELSE LET e   == FloorLog2(n, d) - (MantBits - 1)
           num == IF e < 0 THEN n * Pow2(-e) ELSE n
           den == IF e < 0 THEN d ELSE d * Pow2(e)
           q   == num \div den
           r   == num % den
           up  == (2 * r > den) \/ (2 * r = den /\ q % 2 = 1)
       IN  Normal(sign * (IF up THEN q + 1 ELSE q), e)

\* float + float
FAdd(a, b) ==
  IF IsNaN(a) \/ IsNaN(b) THEN NaN
  ELSE IF a.k = "inf" /\ b.k = "inf" THEN (IF a.sg = b.sg THEN a ELSE NaN)
  ELSE IF a.k = "inf" THEN a
  ELSE IF b.k = "inf" THEN b
  ELSE LET e == Min({a.e, b.e})
           s == a.m * Pow2(a.e - e) + b.m * Pow2(b.e - e)
           r == RoundRat(Sign(s), Abs(s), 1)
       IN  IF r.m = 0 THEN Zero ELSE Normal(r.m, r.e + e)

FNeg(a) ==
  IF IsNaN(a) THEN NaN
  ELSE IF a.k = "inf" THEN Inf(-a.sg)
  ELSE [a EXCEPT !.m = -a.m]

\* float - float
FSub(a, b) == FAdd(a, FNeg(b))

\* a division that makes 0 of a division by zero
FDivZero(a, b) ==
  IF IsNaN(a) \/ IsNaN(b) THEN NaN
  ELSE IF b.k = "num" /\ b.m = 0 THEN Zero
  ELSE IF a.k = "inf" THEN (IF b.k = "inf" THEN NaN
                            ELSE Inf(a.sg * Sign(b.m)))
  ELSE IF b.k = "inf" THEN Zero
  ELSE IF a.m = 0 THEN Zero
  ELSE LET r == RoundRat(Sign(a.m) * Sign(b.m), Abs(a.m), Abs(b.m))
       IN  Normal(r.m, r.e + a.e - b.e)

\* float / float: x/0 is +-inf for x # 0 and NaN for x = 0, no exception
\* (numpy division of float64 arrays)
FDiv(a, b) ==
  IF IsNaN(a) \/ IsNaN(b) THEN NaN
  ELSE IF a.k = "inf" THEN (IF b.k = "inf" THEN NaN
                            ELSE Inf(a.sg * Sign(b.m)))
  ELSE IF b.k = "inf" THEN Zero
  ELSE IF b.m = 0 THEN (IF a.m = 0 THEN NaN ELSE Inf(Sign(a.m)))
  ELSE IF a.m = 0 THEN Zero
  ELSE LET r == RoundRat(Sign(a.m) * Sign(b.m), Abs(a.m), Abs(b.m))
       IN  Normal(r.m, r.e + a.e - b.e)

\* the float of a natural number
FNat(n) == RoundRat(1, n, 1)

One == FNat(1)

IsPositive(v) == (v.k = "inf" /\ v.sg = 1) \/ (v.k = "num" /\ v.m > 0)

IsZero(v) == v.k = "num" /\ v.m = 0

IsFinite(v) == v.k = "num"

(***************************************************************************)
(* String operations of the harmonizer scripts.                            *)
(***************************************************************************)
\* a replace that removes the first comma only
StrReplaceOnce(s) ==
  LET at == {i \in 1..Len(s) : s[i] = ","}
  IN  IF at = {} THEN s
      ELSE Slice(s, 1, Min(at) - 1) \o Slice(s, Min(at) + 1, Len(s))

\* str.replace(',', ''): every comma removed
RECURSIVE StrReplace(_)
StrReplace(s) ==
  IF s = <<>> THEN <<>>
  ELSE IF Head(s) = "," THEN StrReplace(Tail(s))
  ELSE <<Head(s)>> \o StrReplace(Tail(s))

\* the text float() accepts, on the characters the model's cells are made
\* of (digits, ',', '.', ' ', '-', letters other than those of an exponent,
\* "inf" or "nan"): digits with at most one '.', at least one digit
IsFloatText(s) ==
  /\ s # <<>>
  /\ \A i \in 1..Len(s) : IsDigit(s[i]) \/ s[i] = "."
  /\ Cardinality({i \in 1..Len(s) : s[i] = "."}) <= 1
  /\ \E i \in 1..Len(s) : IsDigit(s[i])

DigitValue(c) ==
  CASE c = "0" -> 0 [] c = "1" -> 1 [] c = "2" -> 2 [] c = "3" -> 3
    [] c = "4" -> 4 [] c = "5" -> 5 [] c = "6" -> 6 [] c = "7" -> 7
    [] c = "8" -> 8 [] c = "9" -> 9

\* the natural number a string of digits denotes
RECURSIVE DigitsToNat(_, _)
DigitsToNat(s, acc) ==
  IF s = <<>> THEN acc ELSE DigitsToNat(Tail(s), 10 * acc + DigitValue(Head(s)))

\* float(s) for a text float() accepts: the float nearest to the decimal
ParseFloat(s) ==
  LET dots == {i \in 1..Len(s) : s[i] = "."}
      dot  == IF dots = {} THEN Len(s) + 1 ELSE Min(dots)
      int  == Slice(s, 1, dot - 1)
      frac == Slice(s, dot + 1, Len(s))
  IN  RoundRat(1, DigitsToNat(int \o frac, 0), Pow10(Len(frac)))

\* str.extract(r'(\d{4})'): the first four consecutive digits, else NaN
ExtractYear(s) ==
  LET at == {i \in 1..(Len(s) - 3) : \A k \in i..(i + 3) : IsDigit(s[k])}
  IN  IF at = {} THEN NaN ELSE Str(Slice(s, Min(at), Min(at) + 3))

\* whether (\w+)\s+\d{4} matches at i: the longest word run from i, then
\* the longest space run, then four digits (no shorter run can match)
MonthMatchAt(s, i) ==
  LET w == RunEnd(s, i, IsWord)
      b == RunEnd(s, w + 1, IsSpace)
  IN  /\ w >= i
      /\ b >= w + 1
      /\ b + 4 <= Len(s)
      /\ \A k \in (b + 1)..(b + 4) : IsDigit(s[k])

\* str.extract(r'(\w+)\s+\d{4}'): group 1 of the leftmost match, else NaN
ExtractMonth(s) ==
  LET at == {i \in 1..Len(s) : MonthMatchAt(s, i)}
  IN  IF at = {} THEN NaN
      ELSE Str(Slice(s, Min(at), RunEnd(s, Min(at), IsWord)))

\* string + string of two cells of object columns: NaN where either is NaN
StrCat(a, b) == IF IsNaN(a) \/ IsNaN(b) THEN NaN ELSE Str(a.s \o b.s)

(***************************************************************************)
(* The month table of the harmonizers.                                     *)
(***************************************************************************)
January == <<"J", "a", "n", "u", "a", "r", "y">>

February == <<"F", "e", "b", "r", "u", "a", "r", "y">>

March == <<"M", "a", "r", "c", "h">>

April == <<"A", "p", "r", "i", "l">>

May == <<"M", "a", "y">>

June == <<"J", "u", "n", "e">>

July == <<"J", "u", "l", "y">>

August == <<"A", "u", "g", "u", "s", "t">>

September == <<"S", "e", "p", "t", "e", "m", "b", "e", "r">>

October == <<"O", "c", "t", "o", "b", "e", "r">>

November == <<"N", "o", "v", "e", "m", "b", "e", "r">>

December == <<"D", "e", "c", "e", "m", "b", "e", "r">>

Annual == <<"A", "n", "n", "u", "a", "l">>

\* a table with the numbers of June and July exchanged
month_map_swapped ==
  <<<<January, <<"0", "1">>>>,
    <<February, <<"0", "2">>>>,
    <<March, <<"0", "3">>>>,
    <<April, <<"0", "4">>>>,
    <<May, <<"0", "5">>>>,
    <<June, <<"0", "7">>>>,
    <<July, <<"0", "6">>>>,
    <<August, <<"0", "8">>>>,
    <<September, <<"0", "9">>>>,
    <<October, <<"1", "0">>>>,
    <<November, <<"1", "1">>>>,
    <<December, <<"1", "2">>>>,
    <<Annual, <<"0", "0">>>>>>

\* month_map, as the sequence of its (key, value) pairs
month_map ==
  <<<<January, <<"0", "1">>>>,
    <<February, <<"0", "2">>>>,
    <<March, <<"0", "3">>>>,
    <<April, <<"0", "4">>>>,
    <<May, <<"0", "5">>>>,
    <<June, <<"0", "6">>>>,
    <<July, <<"0", "7">>>>,
    <<August, <<"0", "8">>>>,
    <<September, <<"0", "9">>>>,
    <<October, <<"1", "0">>>>,
    <<November, <<"1", "1">>>>,
    <<December, <<"1", "2">>>>,
    <<Annual, <<"0", "0">>>>>>

\* a lookup that gives the number of "Annual" to a cell that is no key
MapMonthDefault(cell) ==
  LET hit == {i \in 1..Len(month_map) : cell = Str(month_map[i][1])}
  IN  IF hit = {} THEN Str(<<"0", "0">>) ELSE Str(month_map[Min(hit)][2])

\* Series.map(month_map) on one cell: the value of the key, NaN for a cell
\* that is no key of the table
MapMonth(cell) ==
  LET hit == {i \in 1..Len(month_map) : cell = Str(month_map[i][1])}
  IN  IF hit = {} THEN NaN ELSE Str(month_map[Min(hit)][2])

(***************************************************************************)
(* Data frames: the set of column names and the sequence of rows, a row    *)
(* being a function from the column names to cells.  Row i of the model    *)
(* has index label i-1 (the RangeIndex of read_csv).                       *)
(***************************************************************************)
ValueCol == "Value ($US)"

CustomsCol == "Customs Value (Gen) ($US)"

UnnamedCol == "Unnamed: 3"

Frame(cols, rows) == [cols |-> cols, rows |-> rows]

\* a path no file has been written to
NoFile == [k |-> "absent"]

\* the dtype read_csv infers for a column: numeric when every cell reads
\* as a number (or is empty), object (strings) otherwise
ColumnIsNumeric(f, c) ==
  \A i \in 1..Len(f.rows) :
    LET v == f.rows[i][c] IN IsStr(v) => IsFloatText(v.s)

\* f[c] = the cells G(1), G(2), ...: the column is added or replaced
WithColumn(f, c, G(_)) ==
  Frame(f.cols \cup {c},
        [i \in 1..Len(f.rows) |->
           [d \in f.cols \cup {c} |-> IF d = c THEN G(i) ELSE f.rows[i][d]]])

\* f[cols]
SelectColumns(f, cols) ==
  Frame(cols, [i \in 1..Len(f.rows) |-> [d \in cols |-> f.rows[i][d]]])

\* f.drop(c, axis=1)
DropColumn(f, c) == SelectColumns(f, f.cols \ {c})

\* f.rename(columns={old: new}): no change when old is no column of f
RenameColumn(f, old, new) ==
  IF old \notin f.cols THEN f
  ELSE LET cols == (f.cols \ {old}) \cup {new}
       IN  Frame(cols,
                 [i \in 1..Len(f.rows) |->
                    [d \in cols |-> IF d = new THEN f.rows[i][old]
                                    ELSE f.rows[i][d]]])

(***************************************************************************)
(* The scripts and their files.                                            *)
(***************************************************************************)
Sides == {"exports", "imports"}

Scripts == {"exports", "imports", "combined"}

input_path(s) ==
  IF s = "exports" THEN "csv files/Standard Report - Exports.csv"
  ELSE "csv files/Standard Report - Imports.csv"

output_path(s) ==
  IF s = "exports" THEN "processed_exports.csv" ELSE "processed_imports.csv"

exports_path == "processed_exports.csv"

imports_path == "processed_imports.csv"

metrics_path == "nafta_trade_metrics.csv"

Paths ==
  {input_path(s) : s \in Sides} \cup {output_path(s) : s \in Sides}
    \cup {metrics_path}

column_order ==
  {"Time", "Date", "Year", "Month", "Month_Num", "Country", ValueCol}

\* a table that takes Month_Num for one of the common fields
MergeKeysMonthNum == {"Time", "Date", "Year", "Month", "Month_Num", "Country"}

\* the common fields calculate_trade_metrics merges on
MergeKeys == {"Time", "Date", "Year", "Month", "Country"}

\* the columns calculate_trade_metrics keeps of each side: the common
\* fields and the value
SideColumns == MergeKeys \cup {ValueCol}

VARIABLES
  fs,        \* the files: path -> frame written there, or NoFile
  pc,        \* the script that runs and the statement it is at
  df,        \* the data frames "exports" and "imports" of the running script
  merged,    \* the frame "merged" of calculate_trade_metrics
  error      \* script -> the exception that ended it, "none" otherwise

vars == <<fs, pc, df, merged, error>>

At(script, at) == [script |-> script, at |-> at]

EmptyFrame == Frame({}, <<>>)

\* the scripts are run in the order of the pipeline, each to its end
AfterScript(s) ==
  IF s = "exports" THEN At("imports", "read")
  ELSE IF s = "imports" THEN At("combined", "read")
  ELSE At("end", "end")

\* an uncaught exception ends the script; nothing it had not yet written
\* is written
Raise(s, e) ==
  /\ error' = [error EXCEPT ![s] = e]
  /\ pc' = AfterScript(s)
  /\ UNCHANGED <<fs, df, merged>>

(***************************************************************************)
(* nafta-exports.py and nafta-imports.py                                   *)
(***************************************************************************)
\* pd.read_csv(input_path)
ReadCsv(s) ==
  /\ pc = At(s, "read")
  /\ df' = [df EXCEPT ![s] = fs[input_path(s)]]
  /\ pc' = At(s, IF s = "imports" THEN "prepare" ELSE "clean")
  /\ UNCHANGED <<fs, merged, error>>

\* imports only: drop 'Unnamed: 3' if it is there, rename the value column
PrepareImports ==
  /\ pc = At("imports", "prepare")
  /\ LET f == df["imports"]
         g == IF UnnamedCol \in f.cols THEN DropColumn(f, UnnamedCol) ELSE f
     IN  df' = [df EXCEPT !["imports"] = RenameColumn(g, CustomsCol, ValueCol)]
  /\ pc' = At("imports", "clean")
  /\ UNCHANGED <<fs, merged, error>>

\* whether .str.replace(',','').astype(float) raises on this string cell
BadValue(v) == ~IsFloatText(StrReplace(v.s))

\* .str.replace(',','').astype(float) of one string cell
CleanCell(v) == ParseFloat(StrReplace(v.s))

\* df['Value ($US)'] = df['Value ($US)'].str.replace(',','').astype(float)
\* df['Value ($US)'] raises KeyError when the frame has no such column;
\* .str raises AttributeError on a column read as numbers; astype(float)
\* raises ValueError on the first text that is no float
CleanValue(s) ==
  /\ pc = At(s, "clean")
  /\ LET f == df[s] IN
       IF ValueCol \notin f.cols THEN Raise(s, "KeyError")
       ELSE IF ColumnIsNumeric(f, ValueCol) THEN Raise(s, "AttributeError")
       ELSE IF \E i \in 1..Len(f.rows) : BadValue(f.rows[i][ValueCol])
         THEN Raise(s, "ValueError")
       ELSE /\ df' = [df EXCEPT ![s] =
                        WithColumn(f, ValueCol,
                                   LAMBDA i : CleanCell(f.rows[i][ValueCol]))]
            /\ pc' = At(s, "year")
            /\ UNCHANGED <<fs, merged, error>>

\* DataFrame.fillna(series) on the one-column frame str.extract returns:
\* pandas fills column by column, column 0 with the series' value at index
\* label 0, that is with the first row's cell
FillnaSeries(v, series) == IF IsNaN(v) THEN series[1] ELSE v

\* DataFrame.fillna(scalar)
FillnaScalar(v, scalar) == IF IsNaN(v) THEN scalar ELSE v

\* df['Year'] = df['Time'].str.extract(r'(\d{4})').fillna(df['Time'])
YearColumn(s) ==
  /\ pc = At(s, "year")
  /\ LET f    == df[s]
         Time == [i \in 1..Len(f.rows) |-> f.rows[i]["Time"]]
     IN  IF "Time" \notin f.cols THEN Raise(s, "KeyError")
         ELSE IF ColumnIsNumeric(f, "Time") THEN Raise(s, "AttributeError")
         ELSE /\ df' = [df EXCEPT ![s] =
                          WithColumn(f, "Year",
                            LAMBDA i : FillnaSeries(ExtractYear(Time[i].s),
                                                    Time))]
              /\ pc' = At(s, "month")
              /\ UNCHANGED <<fs, merged, error>>

\* df['Month'] = df['Time'].str.extract(r'(\w+)\s+\d{4}').fillna('Annual')
MonthColumn(s) ==
  /\ pc = At(s, "month")
  /\ LET f == df[s]
     IN  df' = [df EXCEPT ![s] =
                  WithColumn(f, "Month",
                    LAMBDA i : FillnaScalar(ExtractMonth(f.rows[i]["Time"].s),
                                            Str(Annual)))]
  /\ pc' = At(s, "month_num")
  /\ UNCHANGED <<fs, merged, error>>

\* df['Month_Num'] = df['Month'].map(month_map)
MonthNumColumn(s) ==
  /\ pc = At(s, "month_num")
  /\ LET f == df[s]
     IN  df' = [df EXCEPT ![s] =
                  WithColumn(f, "Month_Num",
                             LAMBDA i : MapMonth(f.rows[i]["Month"]))]
  /\ pc' = At(s, "date")
  /\ UNCHANGED <<fs, merged, error>>

\* one cell of np.where(Month == 'Annual', Year, Year+'-'+Month_Num+'-01')
DateCell(r) ==
  IF r["Month"] = Str(Annual) THEN r["Year"]
  ELSE StrCat(StrCat(StrCat(r["Year"], Str(<<"-">>)), r["Month_Num"]),
              Str(<<"-", "0", "1">>))

\* df['Date'] = np.where(...)
DateColumn(s) ==
  /\ pc = At(s, "date")
  /\ LET f == df[s]
     IN  df' = [df EXCEPT ![s] =
                  WithColumn(f, "Date", LAMBDA i : DateCell(f.rows[i]))]
  /\ pc' = At(s, "save")
  /\ UNCHANGED <<fs, merged, error>>

\* a projection on the columns of column_order the frame has
SaveProcessedLenient(s) ==
  /\ pc = At(s, "save")
  /\ df' = [df EXCEPT ![s] = SelectColumns(df[s], column_order \cap df[s].cols)]
  /\ fs' = [fs EXCEPT ![output_path(s)] =
                         SelectColumns(df[s], column_order \cap df[s].cols)]
  /\ pc' = AfterScript(s)
  /\ UNCHANGED <<merged, error>>

\* df = df[column_order]; df.to_csv(output_path, index=False)
\* df[column_order] raises KeyError when a column of the list is not there
SaveProcessed(s) ==
  /\ pc = At(s, "save")
  /\ IF ~(column_order \subseteq df[s].cols) THEN Raise(s, "KeyError")
     ELSE /\ df' = [df EXCEPT ![s] = SelectColumns(df[s], column_order)]
          /\ fs' = [fs EXCEPT ![output_path(s)] =
                                 SelectColumns(df[s], column_order)]
          /\ pc' = AfterScript(s)
          /\ UNCHANGED <<merged, error>>

(***************************************************************************)
(* combined.py                                                             *)
(***************************************************************************)
\* exports = pd.read_csv(exports_path); imports = pd.read_csv(imports_path)
ReadProcessed ==
  /\ pc = At("combined", "read")
  /\ IF fs[exports_path] = NoFile \/ fs[imports_path] = NoFile
       THEN Raise("combined", "FileNotFoundError")
       ELSE /\ df' = [exports |-> fs[exports_path],
                      imports |-> fs[imports_path]]
            /\ pc' = At("combined", "select")
            /\ UNCHANGED <<fs, merged, error>>

\* the column the value of side s is renamed to
SideName(s) == IF s = "exports" THEN "Exports" ELSE "Imports"

\* exports_df = exports_df[[...]].rename(columns={'Value ($US)': 'Exports'}),
\* and likewise imports_df
\* exports_df[[...]] raises KeyError when a column of the list is not there
SelectRename ==
  /\ pc = At("combined", "select")
  /\ IF \E s \in Sides : ~(SideColumns \subseteq df[s].cols)
       THEN Raise("combined", "KeyError")
       ELSE /\ df' = [s \in Sides |->
                        RenameColumn(SelectColumns(df[s], SideColumns),
                                     ValueCol, SideName(s))]
            /\ pc' = At("combined", "merge")
            /\ UNCHANGED <<fs, merged, error>>

\* whether two rows agree on every key of the merge (NaN matches NaN)
SameKey(l, r) == \A c \in MergeKeys : l[c] = r[c]

\* a join that fills the absent side with 0
JoinRowFillZero(keys, e, i) ==
  [c \in MergeKeys \cup {"Exports", "Imports"} |->
     IF c = "Exports" THEN (IF IsNaN(e) THEN Zero ELSE e)
     ELSE IF c = "Imports" THEN (IF IsNaN(i) THEN Zero ELSE i)
     ELSE keys[c]]

\* the row of a left row and a right row, NaN standing for an absent side
JoinRow(keys, e, i) ==
  [c \in MergeKeys \cup {"Exports", "Imports"} |->
     IF c = "Exports" THEN e ELSE IF c = "Imports" THEN i ELSE keys[c]]

\* the elements of a set of integers as an ascending sequence
RECURSIVE Ascending(_)
Ascending(S) ==
  IF S = {} THEN <<>> ELSE <<Min(S)>> \o Ascending(S \ {Min(S)})

\* the rows of left row i: one per right row of the same key, or one with
\* Imports missing
RECURSIVE LeftRows(_, _, _)
LeftRows(L, R, i) ==
  IF i > Len(L) THEN <<>>
  ELSE LET m == Ascending({j \in 1..Len(R) : SameKey(L[i], R[j])})
           here == IF m = <<>> THEN <<JoinRow(L[i], L[i]["Exports"], NaN)>>
                   ELSE [n \in 1..Len(m) |->
                           JoinRow(L[i], L[i]["Exports"], R[m[n]]["Imports"])]
       IN  here \o LeftRows(L, R, i + 1)

\* the rows of the right rows no left row has the key of, Exports missing
RECURSIVE RightRows(_, _, _)
RightRows(L, R, j) ==
  IF j > Len(R) THEN <<>>
  ELSE (IF \E i \in 1..Len(L) : SameKey(L[i], R[j]) THEN <<>>
        ELSE <<JoinRow(R[j], NaN, R[j]["Imports"])>>)
       \o RightRows(L, R, j + 1)

\* a merge that keeps only the rows of keys that are on both sides
InnerMerge(e, i) ==
  Frame(MergeKeys \cup {"Exports", "Imports"},
        SelectSeq(LeftRows(e.rows, i.rows, 1),
                  LAMBDA r : ~IsNaN(r["Imports"])))

\* pd.merge(exports_df, imports_df, on=[...], how='outer'), up to the order
\* of the rows (pandas sorts them by key)
OuterMerge(e, i) ==
  Frame(MergeKeys \cup {"Exports", "Imports"},
        LeftRows(e.rows, i.rows, 1) \o RightRows(e.rows, i.rows, 1))

\* pd.merge raises ValueError when a key column was read as numbers on one
\* side and as strings on the other
MergeRaises(e, i) ==
  \E c \in MergeKeys : ColumnIsNumeric(e, c) # ColumnIsNumeric(i, c)

\* merged = pd.merge(...)
Merge ==
  /\ pc = At("combined", "merge")
  /\ IF MergeRaises(df["exports"], df["imports"])
       THEN Raise("combined", "ValueError")
       ELSE /\ merged' = OuterMerge(df["exports"], df["imports"])
            /\ pc' = At("combined", "metrics")
            /\ UNCHANGED <<fs, df, error>>

\* merged['Exports'] - merged['Imports'] at one row
TradeBalance(r) == FSub(r["Exports"], r["Imports"])

\* merged['Exports'] + merged['Imports'] at one row
TradeVolume(r) == FAdd(r["Exports"], r["Imports"])

\* merged['Exports'] / merged['Imports'] at one row
ExportImportRatio(r) == FDiv(r["Exports"], r["Imports"])

\* Trade_Balance, Trade_Volume, Export_Import_Ratio
Metrics ==
  /\ pc = At("combined", "metrics")
  /\ LET a == WithColumn(merged, "Trade_Balance",
                LAMBDA n : TradeBalance(merged.rows[n]))
         b == WithColumn(a, "Trade_Volume",
                LAMBDA n : TradeVolume(merged.rows[n]))
     IN  merged' = WithColumn(b, "Export_Import_Ratio",
                     LAMBDA n : ExportImportRatio(merged.rows[n]))
  /\ pc' = At("combined", "shares")
  /\ UNCHANGED <<fs, df, error>>

\* a grouping by the year instead of the period label
GroupKeyYear(r) == r["Year"]

\* the key groupby('Time') groups the rows by
GroupKey(r) == r["Time"]

\* the sum of column c over rows n.. of the group of key g, missing values
\* skipped; 0 for a group of missing values only. The values are added in
\* the order of the rows, each addition rounded (pandas adds them with a
\* compensated sum, which can differ in the last bit)
RECURSIVE SumFrom(_, _, _, _, _)
SumFrom(rows, c, g, n, acc) ==
  IF n > Len(rows) THEN acc
  ELSE SumFrom(rows, c, g, n + 1,
               IF GroupKey(rows[n]) = g /\ ~IsNaN(rows[n][c])
                 THEN FAdd(acc, rows[n][c]) ELSE acc)

\* a sum that a missing value of the group makes missing
GroupSumNaN(rows, c, r) ==
  IF \E n \in 1..Len(rows) :
       GroupKey(rows[n]) = GroupKey(r) /\ IsNaN(rows[n][c])
    THEN NaN
    ELSE SumFrom(rows, c, GroupKey(r), 1, Zero)

\* merged.groupby('Time')[c].transform('sum') at row r
GroupSum(rows, c, r) == SumFrom(rows, c, GroupKey(r), 1, Zero)

\* Export_Share, Import_Share, RCA_Index
Shares ==
  /\ pc = At("combined", "shares")
  /\ LET a == WithColumn(merged, "Export_Share",
                LAMBDA n : FDiv(merged.rows[n]["Exports"],
                                GroupSum(merged.rows, "Exports",
                                         merged.rows[n])))
         b == WithColumn(a, "Import_Share",
                LAMBDA n : FDiv(merged.rows[n]["Imports"],
                                GroupSum(merged.rows, "Imports",
                                         merged.rows[n])))
     IN  merged' = WithColumn(b, "RCA_Index",
                     LAMBDA n : FDiv(b.rows[n]["Export_Share"],
                                     b.rows[n]["Import_Share"]))
  /\ pc' = At("combined", "save")
  /\ UNCHANGED <<fs, df, error>>

\* trade_metrics.to_csv('nafta_trade_metrics.csv', index=False)
SaveMetrics ==
  /\ pc = At("combined", "save")
  /\ fs' = [fs EXCEPT ![metrics_path] = merged]
  /\ pc' = AfterScript("combined")
  /\ UNCHANGED <<df, merged, error>>

Next ==
  \/ \E s \in Sides :
       \/ ReadCsv(s)
       \/ CleanValue(s)
       \/ YearColumn(s)
       \/ MonthColumn(s)
       \/ MonthNumColumn(s)
       \/ DateColumn(s)
       \/ SaveProcessed(s)
  \/ PrepareImports
  \/ ReadProcessed
  \/ SelectRename
  \/ Merge
  \/ Metrics
  \/ Shares
  \/ SaveMetrics

(***************************************************************************)
(* Input files.  A raw row is <<Time, Country, Value>>, three strings.     *)
(***************************************************************************)
Y2021 == <<"2", "0", "2", "1">>

Y2022 == <<"2", "0", "2", "2">>

Canada == <<"C", "a", "n", "a", "d", "a">>

Mexico == <<"M", "e", "x", "i", "c", "o">>

\* "<word> <year>"
Label(word, year) == word \o <<" ">> \o year

\* a label with no year in it
Total == <<"T", "o", "t", "a", "l">>

\* a label with a year and no word before it
FY2021 == <<"F", "Y", "2", "0", "2", "1">>

\* a word that is no month name
Blah == <<"B", "l", "a", "h">>

MonthNames ==
  {January, February, March, April, May, June, July, August, September,
   October, November, December}

V0 == <<"0">>

V1000 == <<"1", ",", "0", "0", "0">>

V1008 == <<"1", ",", "0", "0", "8">>

\* the files of 1..MaxRows rows drawn from R
FilesOver(R) == UNION {[1..n -> R] : n \in 1..MaxRows}

\* the frame read_csv makes of an exports file
ExportsFile(rows) ==
  Frame({"Time", "Country", ValueCol},
        [i \in 1..Len(rows) |->
           [c \in {"Time", "Country", ValueCol} |->
              Str(IF c = "Time" THEN rows[i][1]
                  ELSE IF c = "Country" THEN rows[i][2] ELSE rows[i][3])]])

\* the frame read_csv makes of an imports file, with or without the
\* unnamed empty column a trailing separator makes
ImportsFile(rows, unnamed) ==
  LET cols == {"Time", "Country", CustomsCol}
                \cup (IF unnamed THEN {UnnamedCol} ELSE {})
  IN  Frame(cols,
        [i \in 1..Len(rows) |->
           [c \in cols |->
              IF c = UnnamedCol THEN NaN
              ELSE Str(IF c = "Time" THEN rows[i][1]
                       ELSE IF c = "Country" THEN rows[i][2]
                       ELSE rows[i][3])]])

\* the state before the first script runs, given the two input files
InitFrom(e, i) ==
  /\ fs = [p \in Paths |->
             IF p = input_path("exports") THEN e
             ELSE IF p = input_path("imports") THEN i
             ELSE NoFile]
  /\ pc = At("exports", "read")
  /\ df = [s \in Sides |-> EmptyFrame]
  /\ merged = EmptyFrame
  /\ error = [s \in Scripts |-> "none"]

\* the pipeline on small files of both sides: exports of one country over
\* a year and a month of it, imports of two countries over the month
ExportRows == {Y2021, Label(March, Y2021)} \X {Canada} \X {V0, V1000}

ImportRows == {Label(March, Y2021)} \X {Canada, Mexico} \X {V0, V1000}

Init ==
  \E e \in FilesOver(ExportRows), i \in FilesOver(ImportRows) :
    InitFrom(ExportsFile(e), ImportsFile(i, TRUE))

Spec == Init /\ [][Next]_vars

\* one harmonizer on a file of its own, the other side's file fixed
DefaultRow == <<Label(March, Y2021), Canada, V1000>>

InitSide(R) ==
  \E s \in Sides, f \in FilesOver(R), unnamed \in BOOLEAN :
    IF s = "exports"
      THEN /\ unnamed
           /\ InitFrom(ExportsFile(f), ImportsFile(<<DefaultRow>>, TRUE))
      ELSE InitFrom(ExportsFile(<<DefaultRow>>), ImportsFile(f, unnamed))

\* Value cells: plain and comma-grouped numbers, and texts that are none
ValueCells ==
  {V0, <<"7">>, V1000, <<"1", ",", "2", ",", "3">>, <<"1", ".", "5">>,
   <<"a", "b", "c">>, <<"1", ",", "a">>, <<",">>}

InitValue == InitSide({Label(March, Y2021)} \X {Canada} \X ValueCells)

SpecValue == InitValue /\ [][Next]_vars

\* Time labels: every month of a year, a bare year, and labels with no
\* month, no year, or a word that is no month
TimeLabels ==
  {Label(m, Y2021) : m \in MonthNames}
    \cup {Label(March, Y2022), Y2021, Total, FY2021, Label(Blah, Y2021)}

InitPeriod == InitSide(TimeLabels \X {Canada} \X {V1000})

SpecPeriod == InitPeriod /\ [][Next]_vars

\* both sides over a month and a label with no year
KeyRows == {Label(March, Y2021), Total} \X {Canada} \X {V1000, V1008}

InitKeys ==
  \E e \in FilesOver(KeyRows), i \in FilesOver(KeyRows) :
    InitFrom(ExportsFile(e), ImportsFile(i, FALSE))

SpecKeys == InitKeys /\ [][Next]_vars

(***************************************************************************)
(* The claims.                                                             *)
(***************************************************************************)
\* the fact table written by combined.py
Out == fs[metrics_path]

HasOut == Out # NoFile

\* the file harmonizer s wrote
Processed(s) == fs[output_path(s)]

\* script s has run to its end or to an exception
Ended(s) ==
  IF s = "exports" THEN pc.script \in {"imports", "combined", "end"}
  ELSE IF s = "imports" THEN pc.script \in {"combined", "end"}
  ELSE pc.script = "end"

\* the (Time, Country) key of a row
TimeCountry(r) == <<r["Time"], r["Country"]>>

TimeCountryKeys(f) == {TimeCountry(f.rows[n]) : n \in 1..Len(f.rows)}

\* each (Time, Country) key occurs at most once in the frame
KeysOnce(f) ==
  \A a, b \in 1..Len(f.rows) :
    TimeCountry(f.rows[a]) = TimeCountry(f.rows[b]) => a = b

\* C1: given exports and imports in which each (Time, Country) key occurs
\* at most once per side, every key of either side is in exactly one row of
\* the fact table and no row has a key of neither side
C1_EveryKeyInOneRow ==
  (HasOut /\ KeysOnce(Processed("exports")) /\ KeysOnce(Processed("imports")))
    => LET keys == TimeCountryKeys(Processed("exports"))
                     \cup TimeCountryKeys(Processed("imports"))
       IN  /\ \A k \in keys :
                Cardinality({n \in 1..Len(Out.rows) :
                               TimeCountry(Out.rows[n]) = k}) = 1
           /\ \A n \in 1..Len(Out.rows) : TimeCountry(Out.rows[n]) \in keys

\* the derived fields that depend on the value of side s
DependsOn(s) ==
  {SideName(s), "Trade_Balance", "Trade_Volume", "Export_Import_Ratio",
   IF s = "exports" THEN "Export_Share" ELSE "Import_Share", "RCA_Index"}

\* C2: in a row of the fact table whose (Time, Country) key is on one side
\* only, the other side's value and every derived field that depends on it
\* are missing (NaN), not zero
C2_AbsentSideIsMissing ==
  HasOut =>
    \A n \in 1..Len(Out.rows), s \in Sides :
      TimeCountry(Out.rows[n]) \notin TimeCountryKeys(Processed(s))
        => \A c \in DependsOn(s) : IsNaN(Out.rows[n][c])

\* a fact table with a row of an exports-only key and a row of an
\* imports-only key
C2_Witness ==
  /\ HasOut
  /\ \A s \in Sides :
       \E n \in 1..Len(Out.rows) :
         /\ TimeCountry(Out.rows[n]) \notin TimeCountryKeys(Processed(s))
         /\ IsNaN(Out.rows[n][SideName(s)])
         /\ \A t \in Sides \ {s} : ~IsNaN(Out.rows[n][SideName(t)])

\* C3: in a row with Imports = 0 the ratio is +inf for Exports > 0 and NaN
\* for Exports = 0, never finite; RCA_Index likewise for Import_Share = 0;
\* the script does not fail and the row is in the file written
C3_DivisionByZero ==
  /\ "Export_Import_Ratio" \in merged.cols =>
       \A n \in 1..Len(merged.rows) :
         LET r == merged.rows[n] IN
           IsZero(r["Imports"]) =>
             /\ IsPositive(r["Exports"]) => r["Export_Import_Ratio"] = Inf(1)
             /\ IsZero(r["Exports"]) => IsNaN(r["Export_Import_Ratio"])
             /\ ~IsFinite(r["Export_Import_Ratio"])
  /\ "RCA_Index" \in merged.cols =>
       \A n \in 1..Len(merged.rows) :
         LET r == merged.rows[n] IN
           IsZero(r["Import_Share"]) =>
             /\ IsPositive(r["Export_Share"]) => r["RCA_Index"] = Inf(1)
             /\ IsZero(r["Export_Share"]) => IsNaN(r["RCA_Index"])
             /\ ~IsFinite(r["RCA_Index"])
  /\ ("Export_Import_Ratio" \in merged.cols /\ Ended("combined")) =>
       /\ error["combined"] = "none"
       /\ HasOut
       /\ Out.rows = merged.rows

\* a fact table written with a row of Imports = 0 and Exports > 0 whose
\* ratio is +inf, and a row of Imports = 0 and Exports = 0 whose ratio is
\* NaN, and a row of Import_Share = 0 whose RCA_Index is +inf
C3_Witness ==
  /\ HasOut
  /\ \E n \in 1..Len(Out.rows) :
       /\ IsZero(Out.rows[n]["Imports"])
       /\ IsPositive(Out.rows[n]["Exports"])
       /\ Out.rows[n]["Export_Import_Ratio"] = Inf(1)
  /\ \E n \in 1..Len(Out.rows) :
       /\ IsZero(Out.rows[n]["Imports"])
       /\ IsZero(Out.rows[n]["Exports"])
       /\ IsNaN(Out.rows[n]["Export_Import_Ratio"])
  /\ \E n \in 1..Len(Out.rows) :
       /\ IsZero(Out.rows[n]["Import_Share"])
       /\ IsPositive(Out.rows[n]["Export_Share"])
       /\ Out.rows[n]["RCA_Index"] = Inf(1)

\* the raw file of side s and its value column
Raw(s) == fs[input_path(s)]

RawValueCol(s) == IF s = "exports" THEN ValueCol ELSE CustomsCol

\* a text of digits and commas with at most one '.', at least one digit:
\* a number once its commas are removed
IsCommaNumber(s) ==
  /\ \A i \in 1..Len(s) : s[i] \in Digits \cup {",", "."}
  /\ Cardinality({i \in 1..Len(s) : s[i] = "."}) <= 1
  /\ \E i \in 1..Len(s) : s[i] \in Digits

\* the float nearest to the decimal number a comma number denotes
CommaNumberValue(s) ==
  LET dots == {i \in 1..Len(s) : s[i] = "."}
      frac == IF dots = {} THEN 0
              ELSE Cardinality({i \in 1..Len(s) :
                                  i > Min(dots) /\ s[i] \in Digits})
  IN  RoundRat(1, DigitsToNat(SelectSeq(s, IsDigit), 0), Pow10(frac))

RECURSIVE SameTimeSum(_, _, _, _)
SameTimeSum(rows, c, n, m) ==
  IF m = 0 THEN Zero
  ELSE LET rest == SameTimeSum(rows, c, n, m - 1)
       IN  IF rows[m]["Time"] = rows[n]["Time"] /\ ~IsNaN(rows[m][c])
             THEN FAdd(rest, rows[m][c]) ELSE rest

\* each share of row n is the value over the sum of the rows of its label
SharesByTime(rows, n) ==
  /\ rows[n]["Export_Share"] =
       FDiv(rows[n]["Exports"], SameTimeSum(rows, "Exports", n, Len(rows)))
  /\ rows[n]["Import_Share"] =
       FDiv(rows[n]["Imports"], SameTimeSum(rows, "Imports", n, Len(rows)))

\* row n is the only row of its Time label
AloneInPeriod(rows, n) ==
  \A m \in 1..Len(rows) : rows[m]["Time"] = rows[n]["Time"] => m = n

\* C5 as stated: each share is the value over the sum of the rows of the
\* same Time label, so the row of a country alone in its period has
\* Export_Share = Import_Share = RCA_Index = 1
C5_Original ==
  HasOut =>
    \A n \in 1..Len(Out.rows) :
      /\ SharesByTime(Out.rows, n)
      /\ AloneInPeriod(Out.rows, n) =>
           /\ Out.rows[n]["Export_Share"] = One
           /\ Out.rows[n]["Import_Share"] = One
           /\ Out.rows[n]["RCA_Index"] = One

\* 1 for a value that is there and not 0, NaN otherwise: x / x
SelfShare(v) == IF IsNaN(v) \/ IsZero(v) THEN NaN ELSE One

\* C5 amended: each share is the value over the sum of the rows of the same
\* Time label; a row alone in its period has Export_Share = 1 when its
\* Exports is there and not 0 and NaN otherwise, Import_Share likewise, and
\* RCA_Index = 1 when both shares are 1 and NaN otherwise
C5_SharesByTime ==
  HasOut =>
    \A n \in 1..Len(Out.rows) :
      /\ SharesByTime(Out.rows, n)
      /\ AloneInPeriod(Out.rows, n) =>
           /\ Out.rows[n]["Export_Share"] = SelfShare(Out.rows[n]["Exports"])
           /\ Out.rows[n]["Import_Share"] = SelfShare(Out.rows[n]["Imports"])
           /\ Out.rows[n]["RCA_Index"] =
                IF /\ Out.rows[n]["Export_Share"] = One
                   /\ Out.rows[n]["Import_Share"] = One
                  THEN One ELSE NaN

\* a fact table with an annual and a monthly row of the same Year, and a
\* row alone in its period with both shares and RCA_Index 1
C5_Witness ==
  /\ HasOut
  /\ \E n, m \in 1..Len(Out.rows) :
       /\ Out.rows[n]["Year"] = Out.rows[m]["Year"]
       /\ Out.rows[n]["Month"] = Str(Annual)
       /\ Out.rows[m]["Month"] = Str(March)
       /\ ~IsNaN(Out.rows[n]["Exports"])
       /\ ~IsNaN(Out.rows[m]["Exports"])
  /\ \E n \in 1..Len(Out.rows) :
       /\ AloneInPeriod(Out.rows, n)
       /\ Out.rows[n]["Export_Share"] = One
       /\ Out.rows[n]["Import_Share"] = One
       /\ Out.rows[n]["RCA_Index"] = One

\* the months in the order of the calendar
CalendarMonths ==
  <<January, February, March, April, May, June, July, August, September,
    October, November, December>>

DigitChar(d) == CHOOSE c \in Digits : DigitValue(c) = d

\* the two digits of n < 100
TwoDigits(n) == <<DigitChar(n \div 10), DigitChar(n % 10)>>

\* the label is the k-th month, a space and four digits
IsMonthYear(t, k) ==
  LET m == CalendarMonths[k] IN
    /\ Len(t) = Len(m) + 5
    /\ Slice(t, 1, Len(m)) = m
    /\ t[Len(m) + 1] = " "
    /\ \A i \in (Len(m) + 2)..Len(t) : t[i] \in Digits

\* C6: for a Time label "<Month> <Year>" both harmonizers give Year =
\* <Year>, Month = <Month>, Month_Num = the two-digit number of the month in
\* the calendar, Date = "<Year>-<Month_Num>-01"
C6_MonthLabels ==
  \A s \in Sides :
    Processed(s) # NoFile =>
      \A i \in 1..Len(Processed(s).rows), k \in 1..12 :
        LET r == Processed(s).rows[i]
            t == Raw(s).rows[i]["Time"].s
            y == Slice(t, Len(t) - 3, Len(t))
        IN  IsMonthYear(t, k) =>
              /\ r["Time"] = Str(t)
              /\ r["Year"] = Str(y)
              /\ r["Month"] = Str(CalendarMonths[k])
              /\ r["Month_Num"] = Str(TwoDigits(k))
              /\ r["Date"] = Str(y \o <<"-">> \o TwoDigits(k) \o <<"-", "0", "1">>)

\* a processed file with the rows of "December 2021" and "March 2022"
C6_Witness ==
  \E s \in Sides :
    /\ Processed(s) # NoFile
    /\ \E i, j \in 1..Len(Processed(s).rows) :
         /\ Processed(s).rows[i]["Time"] = Str(Label(December, Y2021))
         /\ Processed(s).rows[i]["Date"] =
              Str(<<"2", "0", "2", "1", "-", "1", "2", "-", "0", "1">>)
         /\ Processed(s).rows[j]["Time"] = Str(Label(March, Y2022))
         /\ Processed(s).rows[j]["Date"] =
              Str(<<"2", "0", "2", "2", "-", "0", "3", "-", "0", "1">>)

\* the label has no "<word> <4-digit year>" in it
NoMonthPattern(t) == \A i \in 1..Len(t) : ~MonthMatchAt(t, i)

\* C7: for a Time label with no "<word> <4-digit year>" both harmonizers
\* give Month = "Annual", Month_Num = "00" and Date = Year, Year being the
\* first four digits of the label or, when it has none, the label itself;
\* the record is in the file written
C7_AnnualLabels ==
  \A s \in Sides :
    Processed(s) # NoFile =>
      /\ Len(Processed(s).rows) = Len(Raw(s).rows)
      /\ \A i \in 1..Len(Processed(s).rows) :
           LET r == Processed(s).rows[i]
               t == Raw(s).rows[i]["Time"].s
           IN  NoMonthPattern(t) =>
                 /\ r["Month"] = Str(Annual)
                 /\ r["Month_Num"] = Str(<<"0", "0">>)
                 /\ r["Date"] = r["Year"]
                 /\ r["Year"] = IF IsNaN(ExtractYear(t)) THEN Str(t)
                                ELSE ExtractYear(t)

\* the sum of two finite floats needs no rounding
ExactSum(a, b) ==
  LET e == Min({a.e, b.e})
      s == a.m * Pow2(a.e - e) + b.m * Pow2(b.e - e)
  IN  Abs(Normal(s, e).m) < Pow2(MantBits)

\* C8: when both sides have the same (Time, Country) keys, each once, every
\* row has Exports and Imports, Trade_Balance + Imports = Exports and
\* Trade_Volume - Imports = Exports (up to the rounding of floats: asked
\* where Exports - Imports and Exports + Imports need no rounding)
C8_SameKeysRoundTrip ==
  (/\ HasOut
   /\ KeysOnce(Processed("exports")) /\ KeysOnce(Processed("imports"))
   /\ TimeCountryKeys(Processed("exports"))
        = TimeCountryKeys(Processed("imports")))
    => \A n \in 1..Len(Out.rows) :
         LET r == Out.rows[n] IN
           /\ ~IsNaN(r["Exports"])
           /\ ~IsNaN(r["Imports"])
           /\ ExactSum(r["Exports"], FNeg(r["Imports"]))
                => FAdd(r["Trade_Balance"], r["Imports"]) = r["Exports"]
           /\ ExactSum(r["Exports"], r["Imports"])
                => FSub(r["Trade_Volume"], r["Imports"]) = r["Exports"]

\* C9 as stated: every row of the fact table has a Month_Num, the number
\* the month table gives its Month
C9_Original ==
  HasOut =>
    /\ "Month_Num" \in Out.cols
    /\ \A n \in 1..Len(Out.rows) :
         Out.rows[n]["Month_Num"] = MapMonth(Out.rows[n]["Month"])

FactColumns ==
  {"Time", "Date", "Year", "Month", "Country", "Exports", "Imports",
   "Trade_Balance", "Trade_Volume", "Export_Import_Ratio", "Export_Share",
   "Import_Share", "RCA_Index"}

\* C9 amended: no row of the fact table has a Month_Num: both processed
\* files have it, calculate_trade_metrics keeps Time, Date, Year, Month,
\* Country and the value of each side, and the fact table has those and the
\* six derived fields
C9_MonthNumDropped ==
  HasOut =>
    /\ \A s \in Sides : "Month_Num" \in Processed(s).cols
    /\ "Month_Num" \notin Out.cols
    /\ Out.cols = FactColumns
    /\ \A n \in 1..Len(Out.rows) : DOMAIN Out.rows[n] = FactColumns

\* a fact table with rows, made of processed files whose rows have a
\* Month_Num
C9_Witness ==
  /\ HasOut
  /\ Len(Out.rows) > 0
  /\ \A s \in Sides :
       \A i \in 1..Len(Processed(s).rows) :
         Processed(s).rows[i]["Month_Num"] = MapMonth(Processed(s).rows[i]["Month"])
  /\ "Month_Num" \notin DOMAIN Out.rows[1]

\* the word before the 4-digit year of the label is no month name
UnknownMonth(t) ==
  /\ ~IsNaN(ExtractMonth(t))
  /\ ExtractMonth(t).s \notin MonthNames

\* C10: when the word before the 4-digit year of a Time label is no month
\* name, the harmonizer ends with an error and writes no processed file
C10_UnknownMonthAborts ==
  \A s \in Sides :
    (\E i \in 1..Len(Raw(s).rows) : UnknownMonth(Raw(s).rows[i]["Time"].s))
      => /\ Processed(s) = NoFile
         /\ Ended(s) => error[s] # "none"

IsWordYear(t) ==
  /\ Len(t) > 5
  /\ \A i \in 1..(Len(t) - 5) : t[i] \in Letters
  /\ t[Len(t) - 4] = " "
  /\ \A i \in (Len(t) - 3)..Len(t) : t[i] \in Digits
  /\ \A k \in 1..12 : Slice(t, 1, Len(t) - 5) # CalendarMonths[k]

\* the Value column of the raw file is text (a cell has a comma) and every
\* cell of it is a comma number
ValueColumnParses(s) ==
  /\ \A i \in 1..Len(Raw(s).rows) :
       IsCommaNumber(Raw(s).rows[i][RawValueCol(s)].s)
  /\ \E i \in 1..Len(Raw(s).rows) :
       \E j \in 1..Len(Raw(s).rows[i][RawValueCol(s)].s) :
         Raw(s).rows[i][RawValueCol(s)].s[j] = ","

JoinPairs ==
  LET E == Processed("exports").rows
      I == Processed("imports").rows
  IN  {<<a, b>> \in (1..Len(E)) \X (1..Len(I)) : SameKey(E[a], I[b])}
        \cup {<<a, 0>> : a \in {x \in 1..Len(E) :
                                  \A b \in 1..Len(I) : ~SameKey(E[x], I[b])}}
        \cup {<<0, b>> : b \in {y \in 1..Len(I) :
                                  \A a \in 1..Len(E) : ~SameKey(E[a], I[y])}}

\* the table of combined.py has been merged
Joined == pc.script = "combined" /\ pc.at \in {"metrics", "shares", "save"}

\* C12: no stage removes rows: a harmonizer has one record per record of
\* its input at every step and in the file it writes, and
\* calculate_trade_metrics keeps every row of the join while and after it
\* computes the derived fields, whatever their values
C12_NoRowRemoved ==
  /\ \A s \in Sides :
       /\ (pc.script = s /\ pc.at # "read")
            => Len(df[s].rows) = Len(Raw(s).rows)
       /\ Processed(s) # NoFile =>
            /\ Len(Processed(s).rows) = Len(Raw(s).rows)
            /\ \A i \in 1..Len(Raw(s).rows) :
                 /\ Processed(s).rows[i]["Time"] = Raw(s).rows[i]["Time"]
                 /\ Processed(s).rows[i]["Country"] = Raw(s).rows[i]["Country"]
  /\ Joined => Len(merged.rows) = Cardinality(JoinPairs)
  /\ HasOut => Len(Out.rows) = Cardinality(JoinPairs)

\* a fact table written with every row of the join, one of them with a
\* missing side and missing derived fields, one with an infinite ratio
C12_Witness ==
  /\ HasOut
  /\ Len(Out.rows) = Cardinality(JoinPairs)
  /\ \E n, m \in 1..Len(Out.rows) :
       /\ IsNaN(Out.rows[n]["Imports"])
       /\ IsNaN(Out.rows[n]["Trade_Balance"])
       /\ IsNaN(Out.rows[n]["RCA_Index"])
       /\ Out.rows[m]["Export_Import_Ratio"] = Inf(1)
  /\ \A s \in Sides : Len(Processed(s).rows) = Len(Raw(s).rows)

(***************************************************************************)
(* Inputs that lack a column                                               *)
(***************************************************************************)
\* the columns a harmonizer needs of its raw file
RequiredColumns(s) == {"Time", "Country", RawValueCol(s)}

\* the frame without column c, the frame itself when c is no column of it
Without(f, c) == IF c \in f.cols THEN DropColumn(f, c) ELSE f

\* a processed file as a harmonizer writes it for the row of March 2021
ProcessedFile ==
  Frame(column_order,
        <<[c \in column_order |->
             IF c = "Time" THEN Str(Label(March, Y2021))
             ELSE IF c = "Date"
               THEN Str(<<"2", "0", "2", "1", "-", "0", "3", "-", "0", "1">>)
             ELSE IF c = "Year" THEN Str(Y2021)
             ELSE IF c = "Month" THEN Str(March)
             ELSE IF c = "Month_Num" THEN Str(<<"0", "3">>)
             ELSE IF c = "Country" THEN Str(Canada)
             ELSE FNat(1000)]>>)

\* combined.py run on processed files that are there already
InitProcessed(e, i) ==
  /\ fs = [p \in Paths |->
             IF p = exports_path THEN e
             ELSE IF p = imports_path THEN i
             ELSE NoFile]
  /\ pc = At("combined", "read")
  /\ df = [s \in Sides |-> EmptyFrame]
  /\ merged = EmptyFrame
  /\ error = [s \in Scripts |-> "none"]

ColumnRows == {Label(March, Y2021), Y2021} \X {Canada} \X {V1000}

\* the pipeline on raw files one of which may lack a column, and
\* combined.py on processed files one of which may lack a column
InitColumns ==
  \/ \E s \in Sides, f \in FilesOver(ColumnRows) :
       \E c \in RequiredColumns(s) \cup {"none"} :
         IF s = "exports"
           THEN InitFrom(Without(ExportsFile(f), c),
                         ImportsFile(<<DefaultRow>>, TRUE))
           ELSE InitFrom(ExportsFile(<<DefaultRow>>),
                         Without(ImportsFile(f, TRUE), c))
  \/ \E s \in Sides, c \in column_order :
       IF s = "exports"
         THEN InitProcessed(Without(ProcessedFile, c), ProcessedFile)
         ELSE InitProcessed(ProcessedFile, Without(ProcessedFile, c))

SpecColumns == InitColumns /\ [][Next]_vars

\* the Value column of the frame is still text / has been made floats
ValueUnparsed(f) ==
  ValueCol \in f.cols => \A i \in 1..Len(f.rows) : IsStr(f.rows[i][ValueCol])

ValueParsed(f) ==
  ValueCol \in f.cols /\ \A i \in 1..Len(f.rows) : ~IsStr(f.rows[i][ValueCol])

DerivedColumns == {"Year", "Month", "Month_Num", "Date"}

\* the raw file of harmonizer s lacks a column it needs
LacksColumn(s) ==
  Raw(s) # NoFile /\ ~(RequiredColumns(s) \subseteq Raw(s).cols)

\* a processed file combined.py reads lacks a column it selects
ProcessedLacksColumn ==
  /\ \A s \in Sides : Processed(s) # NoFile
  /\ \E s \in Sides : ~(SideColumns \subseteq Processed(s).cols)

\* C13 as stated: when an input lacks a required column, the run ends with
\* an error, no parsing or derivation step has been executed and no output
\* file has been written
C13_Original ==
  /\ \A s \in Sides :
       (LacksColumn(s) /\ Ended(s)) =>
         /\ error[s] # "none"
         /\ Processed(s) = NoFile
         /\ ValueUnparsed(df[s])
         /\ df[s].cols \cap DerivedColumns = {}
  /\ (ProcessedLacksColumn /\ Ended("combined")) =>
       /\ error["combined"] # "none"
       /\ merged = EmptyFrame
       /\ ~HasOut

\* C13 amended: when an input lacks a required column, the script ends with
\* an error before it writes its output file. A harmonizer whose value
\* column is absent ends with KeyError at its first parsing step; with a
\* Value column that parses, an absent Time ends it with KeyError after the
\* Value column has been parsed, and an absent Country (the Time column
\* being text) only at the last projection, after Year, Month, Month_Num
\* and Date have been derived.
\* combined.py ends with KeyError where it selects the columns, before the
\* merge
C13_MissingColumn ==
  /\ \A s \in Sides :
       (LacksColumn(s) /\ Ended(s)) =>
         /\ error[s] # "none"
         /\ Processed(s) = NoFile
         /\ RawValueCol(s) \notin Raw(s).cols =>
              /\ error[s] = "KeyError"
              /\ ValueUnparsed(df[s])
              /\ df[s].cols \cap DerivedColumns = {}
         /\ (RawValueCol(s) \in Raw(s).cols /\ ValueColumnParses(s)) =>
              /\ ValueParsed(df[s])
              /\ "Time" \notin Raw(s).cols =>
                   /\ error[s] = "KeyError"
                   /\ df[s].cols \cap DerivedColumns = {}
              /\ ("Time" \in Raw(s).cols /\ ~ColumnIsNumeric(Raw(s), "Time")) =>
                   /\ error[s] = "KeyError"
                   /\ DerivedColumns \subseteq df[s].cols
  /\ (ProcessedLacksColumn /\ Ended("combined")) =>
       /\ error["combined"] = "KeyError"
       /\ merged = EmptyFrame
       /\ ~HasOut

\* the pipeline has run on an exports file without Country: the script
\* parsed the values and derived the four fields, ended with KeyError and
\* wrote nothing; the imports file was processed
C13_Witness ==
  /\ pc.script = "end"
  /\ Raw("exports") # NoFile
  /\ RequiredColumns("exports") \ Raw("exports").cols = {"Country"}
  /\ error["exports"] = "KeyError"
  /\ Processed("exports") = NoFile
  /\ ValueParsed(df["exports"])
  /\ DerivedColumns \subseteq df["exports"].cols
  /\ Processed("imports") # NoFile
  /\ ~HasOut

\* the rows of a frame that have the (Time, Country) key k
RowsOfKey(f, k) == {n \in 1..Len(f.rows) : TimeCountry(f.rows[n]) = k}

\* C14: when a (Time, Country) key is m times in the exports and n times in
\* the imports (m, n >= 1), calculate_trade_metrics does not fail and the
\* fact table has m*n rows of that key, one for each pairing of an exports
\* row and an imports row, each counted in the sums of its Time group
C14_DuplicateKeys ==
  LET E    == Processed("exports")
      I    == Processed("imports")
      both == TimeCountryKeys(E) \cap TimeCountryKeys(I)
  IN  (E # NoFile /\ I # NoFile) =>
        /\ (Ended("combined") /\ both # {} /\ ~MergeRaises(E, I)) => HasOut
        /\ HasOut =>
             \A k \in both :
               /\ Cardinality(RowsOfKey(Out, k))
                    = Cardinality(RowsOfKey(E, k)) * Cardinality(RowsOfKey(I, k))
               /\ \A a \in RowsOfKey(E, k), b \in RowsOfKey(I, k) :
                    \E n \in RowsOfKey(Out, k) :
                      /\ Out.rows[n]["Exports"] = E.rows[a][ValueCol]
                      /\ Out.rows[n]["Imports"] = I.rows[b][ValueCol]
               /\ \A n \in RowsOfKey(Out, k) : SharesByTime(Out.rows, n)

(***************************************************************************)
(* Two countries of one period with values of a ratio of 1 to 5            *)
(***************************************************************************)
V5000 == <<"5", ",", "0", "0", "0">>

ShareRows == {Label(March, Y2021)} \X {Canada, Mexico} \X {V1000, V5000}

InitShares ==
  \E e \in FilesOver(ShareRows), i \in FilesOver(ShareRows) :
    InitFrom(ExportsFile(e), ImportsFile(i, TRUE))

SpecShares == InitShares /\ [][Next]_vars

\* the share column of a value column
ShareCol(c) == IF c = "Exports" THEN "Export_Share" ELSE "Import_Share"

\* the rows of the Time group of row n that have a value in column c
PresentInGroup(rows, c, n) ==
  {m \in 1..Len(rows) : rows[m]["Time"] = rows[n]["Time"] /\ ~IsNaN(rows[m][c])}

\* the float sum, in the order of the rows, of column sc over the rows of
\* idx that are among the first m
RECURSIVE FloatSum(_, _, _, _)
FloatSum(rows, sc, idx, m) ==
  IF m = 0 THEN Zero
  ELSE IF m \in idx THEN FAdd(FloatSum(rows, sc, idx, m - 1), rows[m][sc])
  ELSE FloatSum(rows, sc, idx, m - 1)

\* the sum of column sc over the rows of idx, as a multiple of 2^emin
RECURSIVE ScaledSum(_, _, _, _)
ScaledSum(rows, sc, idx, emin) ==
  IF idx = {} THEN 0
  ELSE LET n == Min(idx)
       IN  rows[n][sc].m * Pow2(rows[n][sc].e - emin)
             + ScaledSum(rows, sc, idx \ {n}, emin)

\* the sum of column sc over the rows of idx is 1 up to one rounding of a
\* float for each row: |sum - 1| <= |idx| * 2^(1 - MantBits)
SumsToOneRounded(rows, sc, idx) ==
  LET emin == Min({0} \cup {rows[n][sc].e : n \in idx})
      N    == ScaledSum(rows, sc, idx, emin)
      D    == Pow2(-emin)
  IN  Abs(N - D) * Pow2(MantBits - 1) <= Cardinality(idx) * D

\* a row with a missing value adds nothing to the sum of its group and
\* leaves the shares of the rows with a value defined
MissingAddsNothing(rows, c, n) ==
  LET idx == PresentInGroup(rows, c, n)
      sum == SameTimeSum(rows, c, n, Len(rows))
  IN  /\ rows[n][ShareCol(c)] = FDiv(rows[n][c], sum)
      /\ (~IsZero(sum) /\ n \in idx) => IsFinite(rows[n][ShareCol(c)])

====
